---- MODULE Spec2Model ----
(***************************************************************************)
(* Scholarship-application portal: the AuthProvider session state, the     *)
(* three consumer pages (Dashboard, Apply, AdminDashboard) and the rows    *)
(* and blobs they write to the external store.                             *)
(*                                                                         *)
(* Every asynchronous handler is cut at its awaits: the part up to an      *)
(* await is one step, the continuation after the awaited remote call is    *)
(* another step whose outcome (success, error) is chosen by the remote     *)
(* service.  A React state change, the render that follows and the         *)
(* effects of that render are part of the step that made the change.       *)
(***************************************************************************)
EXTENDS Integers, Sequences, FiniteSets, TLC

(***************************************************************************)
(* Bounds of the model                                                     *)
(***************************************************************************)
\* number of checkAdminStatus lookups one AuthProvider has in flight
MaxLookups == 2
\* number of list queries one page has in flight
MaxLoads == 1
\* number of submission pipelines started over a run
MaxSubmissions == 2
\* number of status updates the store applies over a run
MaxUpdates == 2
\* number of applications in a collection handed to the filter
MaxRows == 2

(***************************************************************************)
(* The principals, the browser tabs and the values of the forms            *)
(***************************************************************************)
NULL == "null"
Users == {"a1", "a2", "s1", "s2", "s3"}
\* rows of the store's admins table
Admins == {"a1", "a2"}
Clients == {"t1", "t2"}

Pages == {"home", "login", "adminLogin", "dashboard", "apply", "admin", "external"}
LoginPages == {"login", "adminLogin"}
Consumers == {"dashboard", "apply", "admin"}

Statuses == {"Pending", "Reviewed", "Accepted", "Rejected"}

FormFields == {"desiredCountry", "desiredCollege", "educationLevel", "fieldOfStudy"}
FileTypes == {"passport", "transcripts", "motivationLetter"}

NoFile == [name |-> "", type |-> "", size |-> 0]
EmptyForm == [f \in FormFields |-> ""]
NoFiles == [t \in FileTypes |-> NoFile]

(***************************************************************************)
(* Bags of in-flight requests: a function from a key to a count            *)
(***************************************************************************)
RECURSIVE SumOver(_, _)
SumOver(f, S) == IF S = {} THEN 0
                 ELSE LET x == CHOOSE y \in S : TRUE
                      IN f[x] + SumOver(f, S \ {x})
BagSize(b) == SumOver(b, DOMAIN b)
BagAdd(b, k) == [b EXCEPT ![k] = @ + 1]
BagDel(b, k) == [b EXCEPT ![k] = @ - 1]
EmptyBag(S) == [k \in S |-> 0]

Principals == Users \cup {NULL}

VARIABLES
  \* ---- external services
  applications,      \* the store's applications table, in insertion order
  blobs,             \* objects of the storage bucket 'applications'
  now,               \* Date.now() at the last call of uploadFile
  submissions,       \* number of submission pipelines started so far
  clock,             \* the store's clock: the time of its last mutation
  credentials,       \* the identity provider's accounts
  profiles,          \* ids of the store's students table
  session,           \* the identity provider's session of each browser
  \* ---- AuthProvider
  user, isAdmin, loading,
  getSessionPending, \* the getSession() promise has not resolved yet
  lookups,           \* checkAdminStatus calls awaiting the admins query
  lastCheck,         \* how the last completed checkAdminStatus call ended
  reg,               \* the signUp call in flight, and what the last one returned
  \* ---- router
  page,
  redirect,          \* the last navigate() to a login page made by a consumer
  \* ---- Apply
  formData, files, applyLoading, error, uploading,
  submitResult,      \* what became of the last submit event, until the form is edited
  sub,               \* the handleSubmit call in flight
  \* ---- Dashboard
  dashApplications, dashLoading, studentName,
  dashLoads,         \* loadData calls in flight, by the user they closed over
  dashFor,           \* the user the last completed loadData closed over
  \* ---- AdminDashboard
  adminApplications, adminLoading, selectedApp, updatingStatus,
  searchTerm, filterStatus,
  adminLoads,        \* loadApplications calls in flight, by requesting session
  upd                \* the handleStatusUpdate call in flight

storeVars == <<applications, blobs, now, submissions, clock, credentials, profiles>>
authVars == <<session, user, isAdmin, loading, getSessionPending, lookups, lastCheck, reg>>
routeVars == <<page, redirect>>
applyVars == <<formData, files, applyLoading, error, uploading, submitResult>>
dashVars == <<dashApplications, dashLoading, studentName, dashLoads, dashFor>>
filterVars == <<searchTerm, filterStatus>>
adminVars == <<adminApplications, adminLoading, selectedApp, updatingStatus, adminLoads, upd,
               filterVars>>
vars == <<storeVars, authVars, routeVars, applyVars, sub, dashVars, adminVars>>

(***************************************************************************)
(* The store's queries                                                     *)
(***************************************************************************)
\* rows of the store's students table (one profile per registered student)
Students == {"s1", "s2"}
FullName(u) == IF u = "s1" THEN "Alice" ELSE IF u = "s2" THEN "Bob"
               ELSE IF u = "s3" THEN "Carol" ELSE ""

Reverse(s) == [i \in 1..Len(s) |-> s[Len(s) + 1 - i]]

\* ListForStudent without its .eq('student_id', id)
ListForStudentUnfiltered(u) == Reverse(applications)

\* .from('applications').select('*').eq('student_id', id).order('created_at', desc)
ListForStudent(u) ==
  LET Own(r) == r.student_id = u IN SelectSeq(Reverse(applications), Own)

\* ListAll with a filter on the status
ListAllPending ==
  LET IsPending(r) == r.status = "Pending" IN SelectSeq(Reverse(applications), IsPending)

\* .from('applications').select('*, students(*)').order('created_at', desc)
ListAll == Reverse(applications)

\* UpdateStatus refusing to move a row out of Accepted or Rejected
UpdateStatusTerminal(appId, newStatus) ==
  [i \in 1..Len(applications) |->
     IF applications[i].id = appId /\ applications[i].status \notin {"Accepted", "Rejected"}
     THEN [applications[i] EXCEPT !.status = newStatus]
     ELSE applications[i]]

\* .from('applications').update({ status }).eq('id', appId)
UpdateStatus(appId, newStatus) ==
  [i \in 1..Len(applications) |->
     IF applications[i].id = appId
     THEN [applications[i] EXCEPT !.status = newStatus]
     ELSE applications[i]]

\* the store's timestamps: created_at and updated_at are set at insertion,
\* updated_at is set again by every mutation of the row
Inserted(r) == r @@ [created_at |-> clock + 1, updated_at |-> clock + 1]
Touched(table, appId) ==
  [i \in 1..Len(table) |->
     IF table[i].id = appId
     THEN [table[i] EXCEPT !.updated_at = clock + 1]
     ELSE table[i]]
\* number of updates the store has applied
Updates == clock - Len(applications)

BlobNames == {b.name : b \in blobs}
PublicUrl(fileName) == <<"public", fileName>>

(***************************************************************************)
(* Initial values of the components' state                                 *)
(***************************************************************************)
NoRedirect == [from |-> "none", loading |-> FALSE]
NoCheck == [outcome |-> "none", settled |-> "none"]
NoName == [owner |-> NULL, path |-> "", ts |-> 0, ext |-> ""]
IdleSub == [pc |-> "idle", id |-> 0, user |-> NULL, by |-> NULL, form |-> EmptyForm,
            files |-> NoFiles, urls |-> <<>>, name |-> NoName, mounted |-> FALSE]
IdleReg == [pc |-> "idle", user |-> NULL, auth |-> "none", profile |-> "none",
            result |-> "none"]
IdleUpd == [pc |-> "idle", appId |-> 0, status |-> "", by |-> NULL,
            sel |-> <<>>, mounted |-> FALSE]

Init ==
  /\ applications = <<>>
  /\ blobs = {}
  /\ now = 0
  /\ submissions = 0
  /\ clock = 0
  /\ credentials = {"a1", "a2", "s1", "s2"}
  /\ profiles = Students
  /\ session = [c \in Clients |-> NULL]
  /\ user = [c \in Clients |-> NULL]
  /\ isAdmin = [c \in Clients |-> FALSE]
  /\ loading = [c \in Clients |-> TRUE]
  /\ getSessionPending = [c \in Clients |-> TRUE]
  /\ lookups = [c \in Clients |-> EmptyBag(Users)]
  /\ lastCheck = [c \in Clients |-> NoCheck]
  /\ reg = [c \in Clients |-> IdleReg]
  /\ page = [c \in Clients |-> "home"]
  /\ redirect = [c \in Clients |-> NoRedirect]
  /\ formData = [c \in Clients |-> EmptyForm]
  /\ files = [c \in Clients |-> NoFiles]
  /\ applyLoading = [c \in Clients |-> FALSE]
  /\ error = [c \in Clients |-> <<>>]
  /\ submitResult = [c \in Clients |-> "none"]
  /\ uploading = [c \in Clients |-> NULL]
  /\ sub = [c \in Clients |-> IdleSub]
  /\ dashApplications = [c \in Clients |-> <<>>]
  /\ dashLoading = [c \in Clients |-> TRUE]
  /\ studentName = [c \in Clients |-> ""]
  /\ dashLoads = [c \in Clients |-> EmptyBag(Users)]
  /\ dashFor = [c \in Clients |-> NULL]
  /\ adminApplications = [c \in Clients |-> <<>>]
  /\ adminLoading = [c \in Clients |-> TRUE]
  /\ selectedApp = [c \in Clients |-> <<>>]
  /\ updatingStatus = [c \in Clients |-> FALSE]
  /\ searchTerm = [c \in Clients |-> <<>>]
  /\ filterStatus = [c \in Clients |-> "all"]
  /\ adminLoads = [c \in Clients |-> EmptyBag(Principals)]
  /\ upd = [c \in Clients |-> IdleUpd]

(***************************************************************************)
(* Render: the render of the routed page and the effects of that render.   *)
(* p is the routed page, u / adm / ld the AuthProvider's user, isAdmin and *)
(* loading as rendered, s the identity provider's session (the token the   *)
(* store sees on a request), mount whether the page is a new instance,     *)
(* userCh / admCh whether the effect dependencies user / isAdmin changed.  *)
(***************************************************************************)
\* Dashboard.useEffect: if (!user) navigate('/login')
DashboardRedirects(u) == u = NULL
\* AdminDashboard.useEffect: if (!user || !isAdmin) navigate('/admin/login')
AdminRedirects(u, adm) == u = NULL \/ ~adm
\* Apply: if (!user) { navigate('/login'); return null; }
ApplyRedirects(u) == u = NULL

Routed(p, u, adm, mount, userCh, admCh) ==
  IF p = "dashboard" /\ (mount \/ userCh) /\ DashboardRedirects(u) THEN "login"
  ELSE IF p = "admin" /\ (mount \/ userCh \/ admCh) /\ AdminRedirects(u, adm) THEN "adminLogin"
  ELSE IF p = "apply" /\ ApplyRedirects(u) THEN "login"
  ELSE p

RenderDashboard(c, q, u, mount, userCh) ==
  IF q # "dashboard"
  THEN /\ dashApplications' = [dashApplications EXCEPT ![c] = <<>>]
       /\ dashLoading' = [dashLoading EXCEPT ![c] = TRUE]
       /\ studentName' = [studentName EXCEPT ![c] = ""]
       /\ dashLoads' = [dashLoads EXCEPT ![c] = EmptyBag(Users)]
       /\ dashFor' = [dashFor EXCEPT ![c] = NULL]
  ELSE IF mount
  THEN /\ dashApplications' = [dashApplications EXCEPT ![c] = <<>>]
       /\ dashLoading' = [dashLoading EXCEPT ![c] = TRUE]
       /\ studentName' = [studentName EXCEPT ![c] = ""]
       /\ dashLoads' = [dashLoads EXCEPT ![c] = BagAdd(EmptyBag(Users), u)]
       /\ dashFor' = [dashFor EXCEPT ![c] = NULL]
  ELSE IF userCh
  THEN /\ BagSize(dashLoads[c]) < MaxLoads
       /\ dashLoads' = [dashLoads EXCEPT ![c] = BagAdd(@, u)]
       /\ UNCHANGED <<dashApplications, dashLoading, studentName, dashFor>>
  ELSE UNCHANGED dashVars

RenderAdmin(c, q, s, mount, depsCh) ==
  /\ upd' = IF page[c] = "admin" /\ (q # "admin" \/ mount)
            THEN [upd EXCEPT ![c].mounted = FALSE] ELSE upd
  /\ IF q # "admin" \/ mount
     THEN /\ searchTerm' = [searchTerm EXCEPT ![c] = <<>>]
          /\ filterStatus' = [filterStatus EXCEPT ![c] = "all"]
     ELSE UNCHANGED filterVars
  /\ IF q # "admin"
     THEN /\ adminApplications' = [adminApplications EXCEPT ![c] = <<>>]
          /\ adminLoading' = [adminLoading EXCEPT ![c] = TRUE]
          /\ selectedApp' = [selectedApp EXCEPT ![c] = <<>>]
          /\ updatingStatus' = [updatingStatus EXCEPT ![c] = FALSE]
          /\ adminLoads' = [adminLoads EXCEPT ![c] = EmptyBag(Principals)]
     ELSE IF mount
     THEN /\ adminApplications' = [adminApplications EXCEPT ![c] = <<>>]
          /\ adminLoading' = [adminLoading EXCEPT ![c] = TRUE]
          /\ selectedApp' = [selectedApp EXCEPT ![c] = <<>>]
          /\ updatingStatus' = [updatingStatus EXCEPT ![c] = FALSE]
          /\ adminLoads' = [adminLoads EXCEPT ![c] = BagAdd(EmptyBag(Principals), s)]
     ELSE IF depsCh
     THEN /\ BagSize(adminLoads[c]) < MaxLoads
          /\ adminLoads' = [adminLoads EXCEPT ![c] = BagAdd(@, s)]
          /\ UNCHANGED <<adminApplications, adminLoading, selectedApp, updatingStatus>>
     ELSE UNCHANGED <<adminApplications, adminLoading, selectedApp, updatingStatus, adminLoads>>

RenderApply(c, q, mount) ==
  /\ sub' = IF page[c] = "apply" /\ (q # "apply" \/ mount)
            THEN [sub EXCEPT ![c].mounted = FALSE] ELSE sub
  /\ IF q # "apply" \/ mount
     THEN /\ formData' = [formData EXCEPT ![c] = EmptyForm]
          /\ files' = [files EXCEPT ![c] = NoFiles]
          /\ applyLoading' = [applyLoading EXCEPT ![c] = FALSE]
          /\ error' = [error EXCEPT ![c] = <<>>]
          /\ uploading' = [uploading EXCEPT ![c] = NULL]
          /\ submitResult' = [submitResult EXCEPT ![c] = "none"]
     ELSE UNCHANGED applyVars

Render(c, p, u, adm, ld, s, mount, userCh, admCh) ==
  LET q == Routed(p, u, adm, mount, userCh, admCh) IN
  /\ page' = [page EXCEPT ![c] = q]
  /\ redirect' = [redirect EXCEPT ![c] =
                    IF q # p THEN [from |-> p, loading |-> ld] ELSE NoRedirect]
  /\ RenderDashboard(c, q, u, mount, userCh)
  /\ RenderAdmin(c, q, s, mount, userCh \/ admCh)
  /\ RenderApply(c, q, mount)

\* the state of a document that has just been loaded: no page has state yet
ResetPages(c) ==
  /\ dashApplications' = [dashApplications EXCEPT ![c] = <<>>]
  /\ dashLoading' = [dashLoading EXCEPT ![c] = TRUE]
  /\ studentName' = [studentName EXCEPT ![c] = ""]
  /\ dashLoads' = [dashLoads EXCEPT ![c] = EmptyBag(Users)]
  /\ dashFor' = [dashFor EXCEPT ![c] = NULL]
  /\ adminApplications' = [adminApplications EXCEPT ![c] = <<>>]
  /\ adminLoading' = [adminLoading EXCEPT ![c] = TRUE]
  /\ selectedApp' = [selectedApp EXCEPT ![c] = <<>>]
  /\ updatingStatus' = [updatingStatus EXCEPT ![c] = FALSE]
  /\ adminLoads' = [adminLoads EXCEPT ![c] = EmptyBag(Principals)]
  /\ upd' = [upd EXCEPT ![c] = IdleUpd]
  /\ searchTerm' = [searchTerm EXCEPT ![c] = <<>>]
  /\ filterStatus' = [filterStatus EXCEPT ![c] = "all"]
  /\ formData' = [formData EXCEPT ![c] = EmptyForm]
  /\ files' = [files EXCEPT ![c] = NoFiles]
  /\ applyLoading' = [applyLoading EXCEPT ![c] = FALSE]
  /\ error' = [error EXCEPT ![c] = <<>>]
  /\ uploading' = [uploading EXCEPT ![c] = NULL]
  /\ submitResult' = [submitResult EXCEPT ![c] = "none"]
  /\ sub' = [sub EXCEPT ![c] = IdleSub]

(***************************************************************************)
(* AuthProvider                                                            *)
(***************************************************************************)
LookupOutcomes(u) == (IF u \in Admins THEN {"row"} ELSE {"empty"}) \cup {"error", "throw"}

\* checkAdminStatus up to its await: the admins query is sent
StartLookup(c, u) ==
  /\ BagSize(lookups[c]) < MaxLookups
  /\ lookups' = [lookups EXCEPT ![c] = BagAdd(@, u)]

\* CheckAdminResult with a catch block that leaves isAdmin as it is
CheckAdminResultKeep(o, cur) == IF o = "throw" THEN cur ELSE o = "row"

\* the value checkAdminStatus gives setIsAdmin: !!data, or false in catch
CheckAdminResult(o, cur) == IF o = "throw" THEN FALSE ELSE o = "row"

\* LoadingAfterCheck with setLoading(false) at the end of the try block
\* instead of in finally
LoadingAfterCheckInTry(o, cur) == IF o = "throw" THEN cur ELSE FALSE

\* finally { setLoading(false) }
LoadingAfterCheck(o, cur) == FALSE
\* how the promise of checkAdminStatus settles
CheckAdminSettles(o) == "resolved"

\* supabase.auth.getSession().then(...)
GetSessionResolve(c) ==
  /\ page[c] # "external"
  /\ getSessionPending[c]
  /\ getSessionPending' = [getSessionPending EXCEPT ![c] = FALSE]
  /\ user' = [user EXCEPT ![c] = session[c]]
  /\ IF session[c] # NULL
     THEN StartLookup(c, session[c]) /\ UNCHANGED loading
     ELSE loading' = [loading EXCEPT ![c] = FALSE] /\ UNCHANGED lookups
  /\ UNCHANGED <<session, isAdmin, lastCheck, reg, storeVars>>
  /\ Render(c, page[c], session[c], isAdmin[c], loading'[c], session[c], FALSE,
            ~(user[c] = NULL /\ session[c] = NULL), FALSE)

\* the onAuthStateChange callback, for a sign-in, a sign-out or a token refresh
AuthStateChange(c, s) ==
  /\ page[c] # "external"
  /\ session' = [session EXCEPT ![c] = s]
  /\ user' = [user EXCEPT ![c] = s]
  /\ IF s # NULL
     THEN StartLookup(c, s) /\ UNCHANGED <<isAdmin, loading>>
     ELSE /\ isAdmin' = [isAdmin EXCEPT ![c] = FALSE]
          /\ loading' = [loading EXCEPT ![c] = FALSE]
          /\ UNCHANGED lookups
  /\ UNCHANGED <<getSessionPending, lastCheck, reg, storeVars>>
  /\ Render(c, page[c], s, isAdmin'[c], loading'[c], s, FALSE,
            ~(user[c] = NULL /\ s = NULL), isAdmin'[c] # isAdmin[c])

\* checkAdminStatus after its await
CheckAdminComplete(c, u, o) ==
  /\ page[c] # "external"
  /\ lookups[c][u] > 0
  /\ lookups' = [lookups EXCEPT ![c] = BagDel(@, u)]
  /\ isAdmin' = [isAdmin EXCEPT ![c] = CheckAdminResult(o, isAdmin[c])]
  /\ loading' = [loading EXCEPT ![c] = LoadingAfterCheck(o, loading[c])]
  /\ lastCheck' = [lastCheck EXCEPT ![c] =
                     [outcome |-> o, settled |-> CheckAdminSettles(o)]]
  /\ UNCHANGED <<session, user, getSessionPending, reg, storeVars>>
  /\ Render(c, page[c], user[c], isAdmin'[c], loading'[c], session[c], FALSE,
            FALSE, isAdmin'[c] # isAdmin[c])

\* SignUpReports without its check of profileError
SignUpReportsAuthOnly(authOut, profileOut) ==
  IF authOut = "ok" THEN "ok" ELSE "error"

\* what signUp returns: { error: null }, or { error } from its catch block
SignUpReports(authOut, profileOut) ==
  IF authOut = "ok" /\ profileOut = "ok" THEN "ok" ELSE "error"

\* signUp up to its first await: supabase.auth.signUp is sent
SignUp(c, e) ==
  /\ page[c] # "external"
  /\ reg[c].pc \in {"idle", "done"}
  /\ reg' = [reg EXCEPT ![c] = [pc |-> "auth", user |-> e, auth |-> "none",
                                profile |-> "none", result |-> "none"]]
  /\ UNCHANGED <<session, user, isAdmin, loading, getSessionPending, lookups, lastCheck>>
  /\ UNCHANGED <<storeVars, routeVars, applyVars, sub, dashVars, adminVars>>

\* signUp after auth.signUp: authError or no user throws, else the students
\* insert is sent.  The identity provider refuses an account that exists.
SignUpAuthComplete(c, o) ==
  /\ reg[c].pc = "auth"
  /\ o = "ok" => reg[c].user \notin credentials
  /\ credentials' = IF o = "ok" THEN credentials \cup {reg[c].user} ELSE credentials
  /\ reg' = [reg EXCEPT ![c] =
               IF o = "ok"
               THEN [@ EXCEPT !.pc = "profile", !.auth = o]
               ELSE [@ EXCEPT !.pc = "done", !.auth = o,
                              !.result = SignUpReports(o, "none")]]
  /\ UNCHANGED <<applications, blobs, now, submissions, clock, profiles>>
  /\ UNCHANGED <<session, user, isAdmin, loading, getSessionPending, lookups, lastCheck>>
  /\ UNCHANGED <<routeVars, applyVars, sub, dashVars, adminVars>>

\* signUp after the students insert: profileError throws; the catch block
\* returns the error and undoes nothing
SignUpProfileComplete(c, o) ==
  /\ reg[c].pc = "profile"
  /\ o = "ok" => reg[c].user \notin profiles
  /\ profiles' = IF o = "ok" THEN profiles \cup {reg[c].user} ELSE profiles
  /\ reg' = [reg EXCEPT ![c] = [@ EXCEPT !.pc = "done", !.profile = o,
                                         !.result = SignUpReports(reg[c].auth, o)]]
  /\ UNCHANGED <<applications, blobs, now, submissions, clock, credentials>>
  /\ UNCHANGED <<session, user, isAdmin, loading, getSessionPending, lookups, lastCheck>>
  /\ UNCHANGED <<routeVars, applyVars, sub, dashVars, adminVars>>

(***************************************************************************)
(* Router                                                                  *)
(***************************************************************************)
\* a full page load at a URL: the application, AuthProvider included, is
\* constructed anew; pending continuations of the old document are gone
OpenUrl(c, p) ==
  /\ user' = [user EXCEPT ![c] = NULL]
  /\ isAdmin' = [isAdmin EXCEPT ![c] = FALSE]
  /\ loading' = [loading EXCEPT ![c] = TRUE]
  /\ getSessionPending' = [getSessionPending EXCEPT ![c] = TRUE]
  /\ lookups' = [lookups EXCEPT ![c] = EmptyBag(Users)]
  /\ lastCheck' = [lastCheck EXCEPT ![c] = NoCheck]
  /\ reg' = [reg EXCEPT ![c] = IdleReg]
  /\ UNCHANGED <<session, storeVars>>
  /\ page' = [page EXCEPT ![c] = Routed(p, NULL, FALSE, TRUE, FALSE, FALSE)]
  /\ redirect' = [redirect EXCEPT ![c] =
                    IF page'[c] # p THEN [from |-> p, loading |-> TRUE] ELSE NoRedirect]
  /\ ResetPages(c)

\* a client-side route change: a Link, history back / forward, or a
\* navigate() of a page the listing does not show (login, register)
Navigate(c, p) ==
  /\ page[c] # "external"
  /\ p # page[c]
  /\ UNCHANGED <<authVars, storeVars>>
  /\ Render(c, p, user[c], isAdmin[c], loading[c], session[c], TRUE, FALSE, FALSE)

(***************************************************************************)
(* Dashboard                                                               *)
(***************************************************************************)
\* loadData after its awaits; nameOk: the students query returned the row
DashboardLoadComplete(c, u, nameOk, o) ==
  /\ page[c] = "dashboard"
  /\ dashLoads[c][u] > 0
  /\ dashLoads' = [dashLoads EXCEPT ![c] = BagDel(@, u)]
  /\ studentName' = [studentName EXCEPT ![c] =
                       IF nameOk /\ u \in profiles THEN FullName(u) ELSE @]
  /\ IF o = "ok"
     THEN /\ dashApplications' = [dashApplications EXCEPT ![c] = ListForStudent(u)]
          /\ dashFor' = [dashFor EXCEPT ![c] = u]
     ELSE UNCHANGED <<dashApplications, dashFor>>
  /\ dashLoading' = [dashLoading EXCEPT ![c] = FALSE]
  /\ UNCHANGED <<storeVars, authVars, routeVars, applyVars, sub, adminVars>>

\* handleSignOut of Dashboard and AdminDashboard: signOut(), whose
\* notification reaches AuthProvider before it resolves, then navigate('/')
HandleSignOut(c) ==
  /\ \/ page[c] = "dashboard" /\ ~dashLoading[c]
     \/ page[c] = "admin" /\ ~adminLoading[c]
  /\ session' = [session EXCEPT ![c] = NULL]
  /\ user' = [user EXCEPT ![c] = NULL]
  /\ isAdmin' = [isAdmin EXCEPT ![c] = FALSE]
  /\ loading' = [loading EXCEPT ![c] = FALSE]
  /\ UNCHANGED <<getSessionPending, lookups, lastCheck, reg, storeVars>>
  /\ Render(c, "home", NULL, FALSE, FALSE, NULL, TRUE, FALSE, FALSE)

(***************************************************************************)
(* AdminDashboard                                                          *)
(***************************************************************************)
\* StatusButtons with a button for a status the type does not have
StatusButtonsArchive == {"Reviewed", "Accepted", "Rejected", "Archived"}

\* StatusButtons with a button that sets an application back to Pending
StatusButtonsReopen == {"Pending", "Reviewed", "Accepted", "Rejected"}

\* the status a button of the detail dialog passes to handleStatusUpdate
StatusButtons == {"Reviewed", "Accepted", "Rejected"}

\* loadApplications after its await, called from the effect
AdminLoadComplete(c, by, o) ==
  /\ page[c] = "admin"
  /\ adminLoads[c][by] > 0
  /\ adminLoads' = [adminLoads EXCEPT ![c] = BagDel(@, by)]
  /\ adminApplications' = [adminApplications EXCEPT ![c] = IF o = "ok" THEN ListAll ELSE @]
  /\ adminLoading' = [adminLoading EXCEPT ![c] = FALSE]
  /\ UNCHANGED <<selectedApp, updatingStatus, upd, filterVars>>
  /\ UNCHANGED <<storeVars, authVars, routeVars, applyVars, sub, dashVars>>

\* onClick={() => setSelectedApp(app)} / setSelectedApp(null)
SelectApp(c, i) ==
  /\ page[c] = "admin" /\ ~adminLoading[c]
  /\ i \in 1..Len(adminApplications[c])
  /\ selectedApp' = [selectedApp EXCEPT ![c] = <<adminApplications[c][i]>>]
  /\ UNCHANGED <<adminApplications, adminLoading, updatingStatus, adminLoads, upd, filterVars>>
  /\ UNCHANGED <<storeVars, authVars, routeVars, applyVars, sub, dashVars>>

CloseApp(c) ==
  /\ page[c] = "admin" /\ ~adminLoading[c]
  /\ selectedApp[c] # <<>>
  /\ selectedApp' = [selectedApp EXCEPT ![c] = <<>>]
  /\ UNCHANGED <<adminApplications, adminLoading, updatingStatus, adminLoads, upd, filterVars>>
  /\ UNCHANGED <<storeVars, authVars, routeVars, applyVars, sub, dashVars>>

\* the characters of the text values
Text(v) ==
  CASE v = "Alice" -> <<"A", "l", "i", "c", "e">>
    [] v = "Bob" -> <<"B", "o", "b">>
    [] v = "Carol" -> <<"C", "a", "r", "o", "l">>
    [] v = "Canada" -> <<"C", "a", "n", "a", "d", "a">>
    [] v = "Germany" -> <<"G", "e", "r", "m", "a", "n", "y">>
    [] v = "UBC" -> <<"U", "B", "C">>
    [] v = "TUM" -> <<"T", "U", "M">>
    [] OTHER -> <<>>

UpperLetters == <<"A", "B", "C", "D", "E", "F", "G", "H", "I", "J", "K", "L", "M",
                  "N", "O", "P", "Q", "R", "S", "T", "U", "V", "W", "X", "Y", "Z">>
LowerLetters == <<"a", "b", "c", "d", "e", "f", "g", "h", "i", "j", "k", "l", "m",
                  "n", "o", "p", "q", "r", "s", "t", "u", "v", "w", "x", "y", "z">>

\* String.prototype.toLowerCase, of one character and of a string
LowerChar(ch) ==
  IF \E i \in 1..Len(UpperLetters) : UpperLetters[i] = ch
  THEN LowerLetters[CHOOSE i \in 1..Len(UpperLetters) : UpperLetters[i] = ch]
  ELSE ch
ToLowerCase(s) == [i \in 1..Len(s) |-> LowerChar(s[i])]

\* String.prototype.includes
Includes(s, part) ==
  \E k \in 0..(Len(s) - Len(part)) : SubSeq(s, k + 1, k + Len(part)) = part

\* MatchesSearch comparing the strings as they are
MatchesSearchCaseSensitive(app, term) ==
  \/ Includes(Text(FullName(app.student_id)), term)
  \/ Includes(Text(app.desired_country), term)
  \/ Includes(Text(app.desired_college), term)

\* matchesSearch; app.student is the students row joined on student_id
MatchesSearch(app, term) ==
  \/ Includes(ToLowerCase(Text(FullName(app.student_id))), ToLowerCase(term))
  \/ Includes(ToLowerCase(Text(app.desired_country)), ToLowerCase(term))
  \/ Includes(ToLowerCase(Text(app.desired_college)), ToLowerCase(term))

\* matchesFilter
MatchesFilter(app, f) == f = "all" \/ app.status = f

\* filteredApplications, computed at every render
FilteredApplications(c) ==
  LET Keep(app) == MatchesSearch(app, searchTerm[c]) /\ MatchesFilter(app, filterStatus[c])
  IN SelectSeq(adminApplications[c], Keep)

\* onChange={(e) => setSearchTerm(e.target.value)}
SetSearchTerm(c, term) ==
  /\ page[c] = "admin" /\ ~adminLoading[c]
  /\ term # searchTerm[c]
  /\ searchTerm' = [searchTerm EXCEPT ![c] = term]
  /\ UNCHANGED <<adminApplications, adminLoading, selectedApp, updatingStatus, adminLoads, upd,
                 filterStatus>>
  /\ UNCHANGED <<storeVars, authVars, routeVars, applyVars, sub, dashVars>>

\* onChange={(e) => setFilterStatus(e.target.value)}
SetFilterStatus(c, f) ==
  /\ page[c] = "admin" /\ ~adminLoading[c]
  /\ f # filterStatus[c]
  /\ filterStatus' = [filterStatus EXCEPT ![c] = f]
  /\ UNCHANGED <<adminApplications, adminLoading, selectedApp, updatingStatus, adminLoads, upd,
                 searchTerm>>
  /\ UNCHANGED <<storeVars, authVars, routeVars, applyVars, sub, dashVars>>

\* handleStatusUpdate up to its first await: the update is sent.  The
\* model follows one update per browser at a time (upd[c].pc = "idle").
HandleStatusUpdate(c, newStatus) ==
  /\ page[c] = "admin" /\ ~adminLoading[c]
  /\ selectedApp[c] # <<>>
  /\ ~updatingStatus[c]
  /\ upd[c].pc = "idle"
  /\ Updates < MaxUpdates
  /\ updatingStatus' = [updatingStatus EXCEPT ![c] = TRUE]
  /\ upd' = [upd EXCEPT ![c] = [pc |-> "update", appId |-> selectedApp[c][1].id,
                                status |-> newStatus, by |-> session[c],
                                sel |-> selectedApp[c], mounted |-> TRUE]]
  /\ UNCHANGED <<adminApplications, adminLoading, selectedApp, adminLoads, filterVars>>
  /\ UNCHANGED <<storeVars, authVars, routeVars, applyVars, sub, dashVars>>

\* StatusUpdateComplete with the update sent as
\* .eq('id', appId).eq('updated_at', selectedApp.updated_at): a write based on
\* a row that has changed since matches no row
StatusUpdateCompleteVersioned(c, o) ==
  /\ upd[c].pc = "update"
  /\ IF o = "ok"
     THEN /\ IF \E i \in 1..Len(applications) :
                  /\ applications[i].id = upd[c].appId
                  /\ applications[i].updated_at = upd[c].sel[1].updated_at
             THEN /\ applications' = Touched(UpdateStatus(upd[c].appId, upd[c].status),
                                            upd[c].appId)
                  /\ clock' = clock + 1
             ELSE UNCHANGED <<applications, clock>>
          /\ upd' = [upd EXCEPT ![c].pc = "reload", ![c].by = session[c]]
          /\ UNCHANGED updatingStatus
     ELSE /\ UNCHANGED <<applications, clock>>
          /\ upd' = [upd EXCEPT ![c] = IdleUpd]
          /\ updatingStatus' = [updatingStatus EXCEPT ![c] =
                                  IF upd[c].mounted THEN FALSE ELSE @]
  /\ UNCHANGED <<adminApplications, adminLoading, selectedApp, adminLoads, filterVars>>
  /\ UNCHANGED <<blobs, now, submissions, credentials, profiles>>
  /\ UNCHANGED <<authVars, routeVars, applyVars, sub, dashVars>>

\* handleStatusUpdate after the update: on success it calls loadApplications
StatusUpdateComplete(c, o) ==
  /\ upd[c].pc = "update"
  /\ IF o = "ok"
     THEN /\ applications' = Touched(UpdateStatus(upd[c].appId, upd[c].status), upd[c].appId)
          /\ clock' = clock + 1
          /\ upd' = [upd EXCEPT ![c].pc = "reload", ![c].by = session[c]]
          /\ UNCHANGED updatingStatus
     ELSE /\ UNCHANGED <<applications, clock>>
          /\ upd' = [upd EXCEPT ![c] = IdleUpd]
          /\ updatingStatus' = [updatingStatus EXCEPT ![c] =
                                  IF upd[c].mounted THEN FALSE ELSE @]
  /\ UNCHANGED <<adminApplications, adminLoading, selectedApp, adminLoads, filterVars>>
  /\ UNCHANGED <<blobs, now, submissions, credentials, profiles>>
  /\ UNCHANGED <<authVars, routeVars, applyVars, sub, dashVars>>

\* handleStatusUpdate after loadApplications (which catches its own error)
StatusReloadComplete(c, o) ==
  /\ upd[c].pc = "reload"
  /\ upd' = [upd EXCEPT ![c] = IdleUpd]
  /\ IF upd[c].mounted
     THEN /\ adminApplications' = [adminApplications EXCEPT ![c] =
                                     IF o = "ok" THEN ListAll ELSE @]
          /\ adminLoading' = [adminLoading EXCEPT ![c] = FALSE]
          /\ selectedApp' = [selectedApp EXCEPT ![c] =
                               <<[upd[c].sel[1] EXCEPT !.status = upd[c].status]>>]
          /\ updatingStatus' = [updatingStatus EXCEPT ![c] = FALSE]
     ELSE UNCHANGED <<adminApplications, adminLoading, selectedApp, updatingStatus>>
  /\ UNCHANGED <<adminLoads, filterVars>>
  /\ UNCHANGED <<storeVars, authVars, routeVars, applyVars, sub, dashVars>>

(***************************************************************************)
(* Apply                                                                   *)
(***************************************************************************)
ValidTypes == {"application/pdf", "application/zip", "application/x-zip-compressed"}
MaxFileSize == 10 * 1024 * 1024

\* the select / input elements of the form carry the attribute `required`:
\* the browser fires no submit event while one of them is empty
RequiredFilled(form) == \A f \in FormFields : form[f] # ""

\* FilesMissing looking at the passport only
FilesMissingPassportOnly(fs) == fs["passport"] = NoFile

\* !files.passport || !files.transcripts || !files.motivationLetter
FilesMissing(fs) ==
  fs["passport"] = NoFile \/ fs["transcripts"] = NoFile \/ fs["motivationLetter"] = NoFile

\* the second argument handleSubmit gives uploadFile for each stage
UploadPath(stage) == IF stage = "motivationLetter" THEN "motivation_letter" ELSE stage
\* NextStage going from the passport to the motivation letter
NextStageSkip(stage) == IF stage = "passport" THEN "motivationLetter" ELSE "submitting"

\* the stage handleSubmit enters after a stage has succeeded
NextStage(stage) == IF stage = "passport" THEN "transcripts"
                    ELSE IF stage = "transcripts" THEN "motivationLetter"
                    ELSE "submitting"
UploadStages == {"passport", "transcripts", "motivationLetter"}

\* `${user!.id}/${path}_${Date.now()}.${fileExt}`
FileName(owner, path, ts, file) ==
  [owner |-> owner, path |-> path, ts |-> ts, ext |-> file.name]

\* Date.now() at the next call of uploadFile: an upload takes longer than a
\* millisecond, so that no two calls read the same value
Tick == now + 1

\* handleChange
HandleChange(c, name, value) ==
  /\ page[c] = "apply"
  /\ formData' = [formData EXCEPT ![c][name] = value]
  /\ submitResult' = [submitResult EXCEPT ![c] = "none"]
  /\ UNCHANGED <<files, applyLoading, error, uploading>>
  /\ UNCHANGED <<storeVars, authVars, routeVars, sub, dashVars, adminVars>>

\* FileVerdict without its check of the size
FileVerdictTypeOnly(file) ==
  IF file.type \notin ValidTypes THEN "type" ELSE "accepted"

\* what handleFileChange answers to a chosen file
FileVerdict(file) ==
  IF file.type \notin ValidTypes THEN "type"
  ELSE IF file.size > MaxFileSize THEN "size"
  ELSE "accepted"

\* HandleFileChange emptying the category of a file it refuses
HandleFileChangeClearing(c, type, file) ==
  /\ page[c] = "apply"
  /\ file # NoFile
  /\ IF FileVerdict(file) = "type"
     THEN /\ error' = [error EXCEPT ![c] = <<"Please upload a PDF or ZIP file for", type>>]
          /\ files' = [files EXCEPT ![c][type] = NoFile]
     ELSE IF FileVerdict(file) = "size"
     THEN /\ error' = [error EXCEPT ![c] = <<"File size must be less than 10MB for", type>>]
          /\ files' = [files EXCEPT ![c][type] = NoFile]
     ELSE /\ files' = [files EXCEPT ![c][type] = file]
          /\ error' = [error EXCEPT ![c] = <<>>]
  /\ submitResult' = [submitResult EXCEPT ![c] = "none"]
  /\ UNCHANGED <<formData, applyLoading, uploading>>
  /\ UNCHANGED <<storeVars, authVars, routeVars, sub, dashVars, adminVars>>

\* handleFileChange
HandleFileChange(c, type, file) ==
  /\ page[c] = "apply"
  /\ file # NoFile
  /\ IF FileVerdict(file) = "type"
     THEN /\ error' = [error EXCEPT ![c] = <<"Please upload a PDF or ZIP file for", type>>]
          /\ UNCHANGED files
     ELSE IF FileVerdict(file) = "size"
     THEN /\ error' = [error EXCEPT ![c] = <<"File size must be less than 10MB for", type>>]
          /\ UNCHANGED files
     ELSE /\ files' = [files EXCEPT ![c][type] = file]
          /\ error' = [error EXCEPT ![c] = <<>>]
  /\ submitResult' = [submitResult EXCEPT ![c] = "none"]
  /\ UNCHANGED <<formData, applyLoading, uploading>>
  /\ UNCHANGED <<storeVars, authVars, routeVars, sub, dashVars, adminVars>>

\* a click on the submit button that the browser's validation of the
\* required fields stops: handleSubmit is not called
SubmitBlocked(c) ==
  /\ page[c] = "apply"
  /\ ~applyLoading[c]
  /\ ~RequiredFilled(formData[c])
  /\ submitResult' = [submitResult EXCEPT ![c] = "blocked"]
  /\ UNCHANGED <<formData, files, applyLoading, error, uploading>>
  /\ UNCHANGED <<storeVars, authVars, routeVars, sub, dashVars, adminVars>>

\* handleSubmit up to its first await: either the documents are missing, or
\* the passport upload is sent.  The model follows one pipeline per browser
\* at a time (sub[c].pc = "idle").
HandleSubmit(c) ==
  /\ page[c] = "apply"
  /\ ~applyLoading[c]
  /\ RequiredFilled(formData[c])
  /\ IF FilesMissing(files[c])
     THEN /\ error' = [error EXCEPT ![c] = <<"Please upload all required documents">>]
          /\ submitResult' = [submitResult EXCEPT ![c] = "rejected"]
          /\ UNCHANGED <<applyLoading, uploading, sub, storeVars>>
     ELSE /\ submissions < MaxSubmissions
          /\ sub[c].pc = "idle"
          /\ error' = [error EXCEPT ![c] = <<>>]
          /\ submitResult' = [submitResult EXCEPT ![c] = "started"]
          /\ applyLoading' = [applyLoading EXCEPT ![c] = TRUE]
          /\ uploading' = [uploading EXCEPT ![c] = "passport"]
          /\ submissions' = submissions + 1
          /\ now' = Tick
          /\ sub' = [sub EXCEPT ![c] =
                       [pc |-> "passport", id |-> submissions + 1, user |-> user[c],
                        by |-> session[c], form |-> formData[c], files |-> files[c],
                        urls |-> <<>>, mounted |-> TRUE,
                        name |-> FileName(user[c], "passport", Tick, files[c]["passport"])]]
          /\ UNCHANGED <<applications, blobs, clock, credentials, profiles>>
  /\ UNCHANGED <<formData, files>>
  /\ UNCHANGED <<authVars, routeVars, dashVars, adminVars>>

\* SubmitFailed without setLoading(false)
SubmitFailedStillLoading(c, msg) ==
  /\ sub' = [sub EXCEPT ![c] = IdleSub]
  /\ IF sub[c].mounted
     THEN /\ error' = [error EXCEPT ![c] = msg]
          /\ uploading' = [uploading EXCEPT ![c] = NULL]
     ELSE UNCHANGED <<error, uploading>>
  /\ UNCHANGED <<formData, files, submitResult, applyLoading>>

\* the catch block of handleSubmit
SubmitFailed(c, msg) ==
  /\ sub' = [sub EXCEPT ![c] = IdleSub]
  /\ IF sub[c].mounted
     THEN /\ error' = [error EXCEPT ![c] = msg]
          /\ applyLoading' = [applyLoading EXCEPT ![c] = FALSE]
          /\ uploading' = [uploading EXCEPT ![c] = NULL]
     ELSE UNCHANGED <<error, applyLoading, uploading>>
  /\ UNCHANGED <<formData, files, submitResult>>

\* UploadThrows with the check of uploadError left out
UploadNeverThrows(o) == FALSE

\* uploadFile: if (uploadError) throw uploadError
UploadThrows(o) == o # "ok"

\* StoredAfterUpload removing, when an upload fails, what the submission
\* had uploaded before
StoredAfterUploadRollback(c, o) ==
  IF o = "ok" THEN blobs \cup {[name |-> sub[c].name, sub |-> sub[c].id]}
  ELSE {b \in blobs : b.sub # sub[c].id}

\* the bucket after .upload(fileName, file) has returned
StoredAfterUpload(c, o) ==
  IF o = "ok" THEN blobs \cup {[name |-> sub[c].name, sub |-> sub[c].id]}
  ELSE blobs

\* uploadFile after its await, and handleSubmit up to its next await: the
\* next upload, or the insert, is sent
UploadComplete(c, o) ==
  /\ sub[c].pc \in UploadStages
  /\ o = "ok" => sub[c].name \notin BlobNames
  /\ blobs' = StoredAfterUpload(c, o)
  /\ IF UploadThrows(o)
     THEN /\ SubmitFailed(c, <<"upload failed">>)
          /\ UNCHANGED now
     ELSE LET next == NextStage(sub[c].pc) IN
          /\ now' = IF next = "submitting" THEN now ELSE Tick
          /\ sub' = [sub EXCEPT ![c].pc = next,
                                ![c].urls = Append(@, PublicUrl(sub[c].name)),
                                ![c].by = session[c],
                                ![c].name = IF next = "submitting" THEN NoName
                                            ELSE FileName(sub[c].user, UploadPath(next),
                                                          Tick, sub[c].files[next])]
          /\ uploading' = [uploading EXCEPT ![c] = IF sub[c].mounted THEN next ELSE @]
          /\ UNCHANGED <<formData, files, applyLoading, error, submitResult>>
  /\ UNCHANGED <<applications, submissions, clock, credentials, profiles>>
  /\ UNCHANGED <<authVars, routeVars, dashVars, adminVars>>

\* InitialStatus of an application that is born reviewed
InitialStatusReviewed == "Reviewed"

\* status: 'Pending'
InitialStatus == "Pending"

\* the row handleSubmit inserts; sub and by are not columns: they record the
\* submission that made the row and the session its insert was sent under
NewApplication(p) ==
  [id |-> Len(applications) + 1,
   student_id |-> p.user,
   desired_country |-> p.form["desiredCountry"],
   desired_college |-> p.form["desiredCollege"],
   education_level |-> p.form["educationLevel"],
   field_of_study |-> p.form["fieldOfStudy"],
   passport_url |-> p.urls[1],
   transcripts_url |-> p.urls[2],
   motivation_letter_url |-> p.urls[3],
   status |-> InitialStatus,
   sub |-> p.id,
   by |-> p.by]

\* handleSubmit after the insert: on success the browser leaves the
\* application for the messaging service
InsertComplete(c, o) ==
  /\ sub[c].pc = "submitting"
  /\ IF o = "ok"
     THEN /\ applications' = Append(applications, Inserted(NewApplication(sub[c])))
          /\ clock' = clock + 1
          /\ page' = [page EXCEPT ![c] = "external"]
          /\ redirect' = [redirect EXCEPT ![c] = NoRedirect]
          /\ user' = [user EXCEPT ![c] = NULL]
          /\ isAdmin' = [isAdmin EXCEPT ![c] = FALSE]
          /\ loading' = [loading EXCEPT ![c] = TRUE]
          /\ getSessionPending' = [getSessionPending EXCEPT ![c] = FALSE]
          /\ lookups' = [lookups EXCEPT ![c] = EmptyBag(Users)]
          /\ lastCheck' = [lastCheck EXCEPT ![c] = NoCheck]
          /\ reg' = [reg EXCEPT ![c] = IdleReg]
          /\ ResetPages(c)
          /\ UNCHANGED <<session, blobs, now, submissions, credentials, profiles>>
     ELSE /\ SubmitFailed(c, <<"insert failed">>)
          /\ UNCHANGED <<storeVars, authVars, routeVars, dashVars, adminVars>>

(***************************************************************************)
(* The inputs and the specification                                        *)
(***************************************************************************)
FieldValue(name) ==
  IF name = "desiredCountry" THEN "Canada"
  ELSE IF name = "desiredCollege" THEN "UBC"
  ELSE IF name = "educationLevel" THEN "Bachelor's Degree"
  ELSE "Engineering"

PdfFile == [name |-> "pdf", type |-> "application/pdf", size |-> 1024]
PngFile == [name |-> "png", type |-> "image/png", size |-> 1024]
ChosenFiles == {PdfFile, PngFile}
ZipFile == [name |-> "zip", type |-> "application/zip", size |-> 2048]
\* a file of exactly 10 MiB, and one a byte larger
ExactFile == [name |-> "pdf", type |-> "application/pdf", size |-> MaxFileSize]
BigFile == [name |-> "pdf", type |-> "application/pdf", size |-> MaxFileSize + 1]
OfferedFiles == {PdfFile, PngFile, ZipFile, ExactFile, BigFile}

Outcomes == {"ok", "error"}
LookupFailures == {"error", "throw"}

FieldOrder == <<"desiredCountry", "desiredCollege", "educationLevel", "fieldOfStudy">>
FileOrder == <<"passport", "transcripts", "motivationLetter">>

\* the AuthProvider's steps; U: the sessions the identity provider announces,
\* F: the lookup outcomes left out
AuthStep(c, U, F) ==
  \/ GetSessionResolve(c)
  \/ \E s \in U : AuthStateChange(c, s)
  \/ \E u \in Users : \E o \in LookupOutcomes(u) \ F : CheckAdminComplete(c, u, o)

\* the same, with a notification arriving only when no lookup is in flight
QuietAuthStep(c, U) ==
  \/ GetSessionResolve(c)
  \/ \E s \in U : BagSize(lookups[c]) = 0 /\ AuthStateChange(c, s)
  \/ \E u \in Users : \E o \in LookupOutcomes(u) \ LookupFailures : CheckAdminComplete(c, u, o)

DashboardStep(c) ==
  \E u \in Users, nameOk \in BOOLEAN, o \in Outcomes : DashboardLoadComplete(c, u, nameOk, o)

AdminLoadStep(c) ==
  \E by \in Principals, o \in Outcomes : AdminLoadComplete(c, by, o)

AdminStep(c) ==
  \/ AdminLoadStep(c)
  \/ \E i \in 1..MaxSubmissions : SelectApp(c, i)
  \/ CloseApp(c)
  \/ \E st \in StatusButtons : HandleStatusUpdate(c, st)
  \/ \E o \in Outcomes : StatusUpdateComplete(c, o)
  \/ \E o \in Outcomes : StatusReloadComplete(c, o)

\* every edit of the form, with an accepted and a refused file on offer
FormStep(c) ==
  \/ \E f \in FormFields : \E v \in {"", FieldValue(f)} : HandleChange(c, f, v)
  \/ \E t \in FileTypes, file \in ChosenFiles : HandleFileChange(c, t, file)
  \/ SubmitBlocked(c)

\* the form filled in from top to bottom, with accepted files
FillNext(c) ==
  \/ \E i \in 1..Len(FieldOrder) :
       /\ \A j \in 1..(i - 1) : formData[c][FieldOrder[j]] # ""
       /\ formData[c][FieldOrder[i]] = ""
       /\ HandleChange(c, FieldOrder[i], FieldValue(FieldOrder[i]))
  \/ \E i \in 1..Len(FileOrder) :
       /\ RequiredFilled(formData[c])
       /\ \A j \in 1..(i - 1) : files[c][FileOrder[j]] # NoFile
       /\ files[c][FileOrder[i]] = NoFile
       /\ HandleFileChange(c, FileOrder[i], PdfFile)

\* the submission pipeline, every remote call succeeding or failing
PipelineStep(c) ==
  \/ HandleSubmit(c)
  \/ \E o \in Outcomes : UploadComplete(c, o)
  \/ \E o \in Outcomes : InsertComplete(c, o)

\* the submission pipeline with every remote call succeeding
PipelineOk(c) ==
  \/ HandleSubmit(c)
  \/ UploadComplete(c, "ok")
  \/ InsertComplete(c, "ok")

(***************************************************************************)
(* SpecAuth: one browser; every session notification, every outcome of    *)
(* the admins lookup, every route; the store holds no application.         *)
(***************************************************************************)
NextAuth ==
  \/ AuthStep("t1", Principals, {})
  \/ \E p \in Pages \ {"external"} : OpenUrl("t1", p)
  \/ \E p \in Pages \ {"external"} : Navigate("t1", p)
  \/ HandleSignOut("t1")
  \/ DashboardStep("t1")
  \/ AdminLoadStep("t1")

SpecAuth == Init /\ [][NextAuth]_vars

\* SpecAuth within one document, that is with one AuthProvider, and with
\* the identity provider answering getSession and the store answering every
\* admins lookup: a pending answer arrives at some time
NextAuthLive ==
  \/ AuthStep("t1", Principals, {})
  \/ \E p \in Pages \ {"external"} : Navigate("t1", p)
  \/ HandleSignOut("t1")
  \/ DashboardStep("t1")
  \/ AdminLoadStep("t1")

SpecAuthLive ==
  /\ Init /\ [][NextAuthLive]_vars
  /\ WF_vars(GetSessionResolve("t1"))
  /\ WF_vars(\E u \in Users : \E o \in LookupOutcomes(u) : CheckAdminComplete("t1", u, o))

(***************************************************************************)
(* SpecForm: one student on the Apply page, every edit of the form and     *)
(* every outcome of the pipeline's remote calls.                           *)
(***************************************************************************)
NextForm ==
  \/ AuthStep("t1", {"s1"}, LookupFailures)
  \/ Navigate("t1", "apply")
  \/ FormStep("t1")
  \/ PipelineStep("t1")

SpecForm == Init /\ [][NextForm]_vars

(***************************************************************************)
(* SpecSubmit: one browser in which two students sign in and out while     *)
(* submission pipelines run, every remote call succeeding or failing.      *)
(***************************************************************************)
NextSubmit ==
  \/ AuthStep("t1", {NULL, "s1", "s2"}, LookupFailures)
  \/ \E p \in {"login", "apply"} : Navigate("t1", p)
  \/ FillNext("t1")
  \/ SubmitBlocked("t1")
  \/ PipelineStep("t1")

SpecSubmit == Init /\ [][NextSubmit]_vars

(***************************************************************************)
(* SpecList: one browser in which two students submit and read their       *)
(* dashboards; the browser comes back from the messaging service by a      *)
(* page load.                                                              *)
(***************************************************************************)
NextList ==
  \/ QuietAuthStep("t1", {NULL, "s1", "s2"})
  \/ \E p \in {"apply", "dashboard"} : Navigate("t1", p)
  \/ OpenUrl("t1", "login")
  \/ HandleSignOut("t1")
  \/ FillNext("t1")
  \/ PipelineOk("t1")
  \/ DashboardStep("t1")

SpecList == Init /\ [][NextList]_vars

(***************************************************************************)
(* SpecFiles: one student on the Apply page choosing among accepted and    *)
(* refused files for the passport and the transcripts, the rest of the     *)
(* form filled in from top to bottom, every outcome of the pipeline's      *)
(* remote calls.                                                           *)
(***************************************************************************)
NextFiles ==
  \/ QuietAuthStep("t1", {"s1"})
  \/ Navigate("t1", "apply")
  \/ FillNext("t1")
  \/ \E file \in OfferedFiles : HandleFileChange("t1", "passport", file)
  \/ \E file \in {ZipFile, PngFile} : HandleFileChange("t1", "transcripts", file)
  \/ PipelineStep("t1")

SpecFiles == Init /\ [][NextFiles]_vars

(***************************************************************************)
(* SpecFilter: the administrator a1 on the AdminDashboard, with a loaded    *)
(* list of up to MaxRows applications of two students, typing search terms *)
(* and choosing status filters.                                            *)
(***************************************************************************)
Entries == [student : {"s1", "s2"},
            place : {[country |-> "Canada", college |-> "UBC"],
                     [country |-> "Germany", college |-> "TUM"]},
            status : Statuses]
Collections == UNION {[1..n -> Entries] : n \in 0..MaxRows}

\* the options of the status select, and the terms typed
FilterOptions == {"all"} \cup Statuses
SearchTerms == {<<>>, <<"c", "a", "n">>, <<"C", "A", "N">>, <<"u", "b">>, <<"B", "o">>,
                <<"a">>, <<"x">>, <<"T", "u", "m">>}

\* the store after the applications of coll were submitted in order and the
\* ones that are not Pending updated once each, in order
UploadedName(coll, i, k) ==
  FileName(coll[i].student, UploadPath(FileOrder[k]), 3 * (i - 1) + k, PdfFile)
Reviewed(coll, i) == Cardinality({j \in 1..i : coll[j].status # "Pending"})
StoredRow(coll, i) ==
  [id |-> i,
   student_id |-> coll[i].student,
   desired_country |-> coll[i].place.country,
   desired_college |-> coll[i].place.college,
   education_level |-> FieldValue("educationLevel"),
   field_of_study |-> FieldValue("fieldOfStudy"),
   passport_url |-> PublicUrl(UploadedName(coll, i, 1)),
   transcripts_url |-> PublicUrl(UploadedName(coll, i, 2)),
   motivation_letter_url |-> PublicUrl(UploadedName(coll, i, 3)),
   status |-> coll[i].status,
   sub |-> i,
   by |-> coll[i].student,
   created_at |-> i,
   updated_at |-> IF coll[i].status = "Pending" THEN i ELSE Len(coll) + Reviewed(coll, i)]

InitFilter ==
  \E coll \in Collections :
    /\ applications = [i \in 1..Len(coll) |-> StoredRow(coll, i)]
    /\ blobs = {[name |-> UploadedName(coll, i, k), sub |-> i] :
                  i \in 1..Len(coll), k \in 1..Len(FileOrder)}
    /\ now = 3 * Len(coll)
    /\ submissions = Len(coll)
    /\ clock = Len(coll) + Reviewed(coll, Len(coll))
    /\ credentials = {"a1", "a2", "s1", "s2"}
    /\ profiles = Students
    /\ session = [c \in Clients |-> IF c = "t2" THEN "a1" ELSE NULL]
    /\ user = [c \in Clients |-> IF c = "t2" THEN "a1" ELSE NULL]
    /\ isAdmin = [c \in Clients |-> c = "t2"]
    /\ loading = [c \in Clients |-> c # "t2"]
    /\ getSessionPending = [c \in Clients |-> c # "t2"]
    /\ lookups = [c \in Clients |-> EmptyBag(Users)]
    /\ lastCheck = [c \in Clients |->
                      IF c = "t2" THEN [outcome |-> "row", settled |-> CheckAdminSettles("row")]
                      ELSE NoCheck]
    /\ reg = [c \in Clients |-> IdleReg]
    /\ page = [c \in Clients |-> IF c = "t2" THEN "admin" ELSE "home"]
    /\ redirect = [c \in Clients |-> NoRedirect]
    /\ formData = [c \in Clients |-> EmptyForm]
    /\ files = [c \in Clients |-> NoFiles]
    /\ applyLoading = [c \in Clients |-> FALSE]
    /\ error = [c \in Clients |-> <<>>]
    /\ submitResult = [c \in Clients |-> "none"]
    /\ uploading = [c \in Clients |-> NULL]
    /\ sub = [c \in Clients |-> IdleSub]
    /\ dashApplications = [c \in Clients |-> <<>>]
    /\ dashLoading = [c \in Clients |-> TRUE]
    /\ studentName = [c \in Clients |-> ""]
    /\ dashLoads = [c \in Clients |-> EmptyBag(Users)]
    /\ dashFor = [c \in Clients |-> NULL]
    /\ adminApplications = [c \in Clients |-> IF c = "t2" THEN Reverse(applications) ELSE <<>>]
    /\ adminLoading = [c \in Clients |-> c # "t2"]
    /\ selectedApp = [c \in Clients |-> <<>>]
    /\ updatingStatus = [c \in Clients |-> FALSE]
    /\ searchTerm = [c \in Clients |-> <<>>]
    /\ filterStatus = [c \in Clients |-> "all"]
    /\ adminLoads = [c \in Clients |-> EmptyBag(Principals)]
    /\ upd = [c \in Clients |-> IdleUpd]

NextFilter ==
  \/ \E term \in SearchTerms : SetSearchTerm("t2", term)
  \/ \E f \in FilterOptions : SetFilterStatus("t2", f)

SpecFilter == InitFilter /\ [][NextFilter]_vars

(***************************************************************************)
(* SpecRegister: two browsers register a new student and an existing one,  *)
(* every outcome of the two remote calls of signUp; the identity provider  *)
(* announces the session of an account that exists.                        *)
(***************************************************************************)
SignUpOutcomes == {"ok", "error", "nouser"}

RegisterStep(c) ==
  \/ \E e \in {"s1", "s3"} : SignUp(c, e)
  \/ \E o \in SignUpOutcomes : SignUpAuthComplete(c, o)
  \/ \E o \in Outcomes : SignUpProfileComplete(c, o)

NextRegister ==
  \/ \E c \in Clients : RegisterStep(c)
  \/ GetSessionResolve("t1")
  \/ \E s \in {NULL, "s3"} : s \in credentials \cup {NULL} /\ AuthStateChange("t1", s)
  \/ \E o \in {"empty"} : CheckAdminComplete("t1", "s3", o)
  \/ Navigate("t1", "dashboard")
  \/ DashboardStep("t1")

SpecRegister == Init /\ [][NextRegister]_vars

(***************************************************************************)
(* Spec: the lifecycle of an application over two browsers.  In t1 a       *)
(* student submits and reads the dashboard; in t2 principals sign in and   *)
(* out and review on the AdminDashboard.                                   *)
(***************************************************************************)
StudentTab(c) ==
  \/ QuietAuthStep(c, {"s1"})
  \/ \E p \in {"apply", "dashboard"} : Navigate(c, p)
  \/ FillNext(c)
  \/ PipelineOk(c)
  \/ DashboardStep(c)

AdminTab(c) ==
  \/ QuietAuthStep(c, {NULL, "a1", "s1"})
  \/ Navigate(c, "admin")
  \/ HandleSignOut(c)
  \/ AdminStep(c)

Next == StudentTab("t1") \/ AdminTab("t2")

Spec == Init /\ [][Next]_vars

(***************************************************************************)
(* SpecReview: two administrators on one application.  In t1 student s1    *)
(* submits an application; then t1 is opened at the administrators'        *)
(* login, a2 signs in there and a1 in t2, and both review on the           *)
(* AdminDashboard: a2 with every button and every outcome of the remote    *)
(* calls, a1 rejecting.                                                    *)
(***************************************************************************)
\* the AuthProvider's steps with administrator a signing in once
ReviewAuthStep(c, a) ==
  \/ GetSessionResolve(c)
  \/ /\ applications # <<>> /\ session[c] # a /\ BagSize(lookups[c]) = 0
     /\ AuthStateChange(c, a)
  \/ \E u \in Users : \E o \in LookupOutcomes(u) \ LookupFailures : CheckAdminComplete(c, u, o)

ReviewTab1(c) ==
  \/ applications = <<>> /\ QuietAuthStep(c, {"s1"})
  \/ applications = <<>> /\ Navigate(c, "apply")
  \/ applications = <<>> /\ FillNext(c)
  \/ applications = <<>> /\ PipelineOk(c)
  \/ page[c] = "external" /\ OpenUrl(c, "adminLogin")
  \/ applications # <<>> /\ ReviewAuthStep(c, "a2")
  \/ applications # <<>> /\ Navigate(c, "admin")
  \/ AdminStep(c)

\* the second administrator opens the application and rejects it, every
\* remote call succeeding
ReviewTab2(c) ==
  \/ ReviewAuthStep(c, "a1")
  \/ applications # <<>> /\ Navigate(c, "admin")
  \/ \E by \in Principals : AdminLoadComplete(c, by, "ok")
  \/ \E i \in 1..MaxSubmissions : SelectApp(c, i)
  \/ HandleStatusUpdate(c, "Rejected")
  \/ StatusUpdateComplete(c, "ok")
  \/ StatusReloadComplete(c, "ok")

NextReview == ReviewTab1("t1") \/ ReviewTab2("t2")

SpecReview == Init /\ [][NextReview]_vars

(***************************************************************************)
(* SpecRetry: one browser in which every remote call succeeds or fails.    *)
(* Student s1 reads the dashboard and submits until an application is      *)
(* stored; then the browser is opened at the administrators' login, a2     *)
(* signs in and reviews.                                                   *)
(***************************************************************************)
RetryTab(c) ==
  \/ applications = <<>> /\ QuietAuthStep(c, {"s1"})
  \/ applications = <<>> /\ \E p \in {"apply", "dashboard"} : Navigate(c, p)
  \/ applications = <<>> /\ FillNext(c)
  \/ applications = <<>> /\ PipelineStep(c)
  \/ applications = <<>> /\ DashboardStep(c)
  \/ page[c] = "external" /\ OpenUrl(c, "adminLogin")
  \/ applications # <<>> /\ ReviewAuthStep(c, "a2")
  \/ applications # <<>> /\ Navigate(c, "admin")
  \/ AdminStep(c)

NextRetry == RetryTab("t1")

SpecRetry == Init /\ [][NextRetry]_vars

(***************************************************************************)
(* Properties                                                              *)
(***************************************************************************)
Range(q) == {q[i] : i \in 1..Len(q)}
\* every row a page shows, by browser
Shown(c) == Range(dashApplications[c]) \cup Range(adminApplications[c]) \cup Range(selectedApp[c])

\* C1: the status of every persisted application, and of every copy of one
\* that a page shows, is Pending, Reviewed, Accepted or Rejected.
C1_StatusInRange ==
  /\ \A r \in Range(applications) : r.status \in Statuses
  /\ \A c \in Clients : \A r \in Shown(c) : r.status \in Statuses

\* an application that was submitted and then rejected by an administrator
C1_Witness ==
  \E r \in Range(applications) : r.status = "Rejected" /\ upd["t2"].pc = "idle"

\* a form with a descriptive field empty or a document not chosen
Incomplete(form, fs) ==
  \/ \E f \in FormFields : form[f] = ""
  \/ \E t \in FileTypes : fs[t] = NoFile

Resolved(url, k, owner, path) ==
  \E b \in blobs : /\ url = PublicUrl(b.name)
                   /\ b.sub = k
                   /\ b.name.owner = owner
                   /\ b.name.path = path

\* C3: every persisted application carries three locators, each of a blob
\* that an upload of the same submission stored; the insert is sent only
\* after the three uploads succeeded, so a submission whose upload failed
\* leaves no row.
C3_LocatorsResolved ==
  /\ \A r \in Range(applications) :
       /\ Resolved(r.passport_url, r.sub, r.student_id, "passport")
       /\ Resolved(r.transcripts_url, r.sub, r.student_id, "transcripts")
       /\ Resolved(r.motivation_letter_url, r.sub, r.student_id, "motivation_letter")
  /\ \A c \in Clients :
       sub[c].pc = "submitting" =>
         /\ Len(sub[c].urls) = 3
         /\ Resolved(sub[c].urls[1], sub[c].id, sub[c].user, "passport")
         /\ Resolved(sub[c].urls[2], sub[c].id, sub[c].user, "transcripts")
         /\ Resolved(sub[c].urls[3], sub[c].id, sub[c].user, "motivation_letter")

\* a submission that was aborted after an upload of it had succeeded, and a
\* later one that was persisted
C3_Witness ==
  /\ \E b \in blobs : /\ \A r \in Range(applications) : r.sub # b.sub
                      /\ \A c \in Clients : sub[c].id # b.sub
  /\ applications # <<>>

\* C4: a request of loadApplications or handleStatusUpdate is never sent
\* under a session that is not an administrator's.
C4_AdminRequestsByAdmins ==
  \A c \in Clients :
    /\ \A by \in Principals : adminLoads[c][by] > 0 => by \in Admins
    /\ upd[c].pc # "idle" => upd[c].by \in Admins

\* C5: the rows the last completed loadData gave the Dashboard all belong
\* to the user that call was made for.
C5_OwnRowsOnly ==
  \A c \in Clients : \A r \in Range(dashApplications[c]) : r.student_id = dashFor[c]

\* a Dashboard listing its user's application while the table holds another
\* student's
C5_Witness ==
  /\ dashApplications["t1"] # <<>>
  /\ \E r \in Range(applications) : r.student_id # dashFor["t1"]

\* C6: the status of a persisted application changes only in the step that
\* applies an update sent under an administrator's session.
C6_StatusChangedByAdminOnly ==
  [][\A i \in 1..Len(applications) :
       applications'[i].status # applications[i].status
         => \E c \in Clients : /\ upd[c].pc = "update"
                               /\ upd'[c].pc = "reload"
                               /\ upd[c].by \in Admins]_vars

\* C7: every persisted application belongs to the principal under whose
\* session its insert was sent, and so does every insert in flight.
C7_InsertedByOwner ==
  /\ \A r \in Range(applications) : r.student_id = r.by
  /\ \A c \in Clients : sub[c].pc = "submitting" => sub[c].user = sub[c].by

\* C8: after a checkAdminStatus call whose lookup failed, isAdmin is false,
\* loading is false and the call has resolved.
C8_FailedLookupDenies ==
  \A c \in Clients :
    lastCheck[c].outcome \in LookupFailures
      => ~isAdmin[c] /\ ~loading[c] /\ lastCheck[c].settled = "resolved"

\* the lookup of a signed-in administrator threw
C8_Witness ==
  /\ lastCheck["t1"].outcome = "throw"
  /\ user["t1"] \in Admins
  /\ BagSize(lookups["t1"]) = 0

\* C9: isAdmin is true only while the current user is a member of the
\* admin set.
C9_AdminFlagOfCurrentUser ==
  \A c \in Clients : isAdmin[c] => (user[c] # NULL /\ user[c] \in Admins)

\* C10: a consumer page navigates to a login page only when AuthProvider's
\* loading is false.
C10_NoRedirectWhileLoading ==
  \A c \in Clients : redirect[c].from \in Consumers => ~redirect[c].loading

\* C11: the row that an insert of handleSubmit adds to the table has status
\* Pending in the state right after the insert.
C11_CreatedPending ==
  [][\A i \in 1..Len(applications') :
       i > Len(applications) => applications'[i].status = "Pending"]_vars

\* s2's application, persisted and not touched since
C11_Witness ==
  \E r \in Range(applications) :
    r.student_id = "s2" /\ r.updated_at = r.created_at /\ r.sub = 2

\* C12: an update that the store accepts sets the row's status to the
\* requested one, whatever status the row had.
C12_UpdateFromAnyStatus ==
  [][\A c \in Clients :
       (upd[c].pc = "update" /\ upd'[c].pc = "reload")
         => \A i \in 1..Len(applications) :
              applications[i].id = upd[c].appId
                => applications'[i].status = upd[c].status]_vars

\* an application moved back from Accepted to Reviewed
C12_Witness ==
  /\ upd["t2"].pc = "reload"
  /\ upd["t2"].sel[1].status = "Accepted"
  /\ upd["t2"].status = "Reviewed"
  /\ \E r \in Range(applications) : r.id = upd["t2"].appId /\ r.status = "Reviewed"

C14_SignUpReportsFailure ==
  \A c \in Clients :
    reg[c].pc = "done" =>
      /\ (reg[c].auth # "ok" \/ reg[c].profile # "ok") => reg[c].result = "error"
      /\ reg[c].result = "ok" => reg[c].user \in credentials \cap profiles
      /\ reg[c].profile = "error" => reg[c].user \in credentials

\* s3 has an account and no profile, and signUp has reported the failure
C14_Witness ==
  /\ reg["t1"].pc = "done"
  /\ reg["t1"].user = "s3"
  /\ reg["t1"].profile = "error"
  /\ reg["t1"].result = "error"
  /\ "s3" \in credentials \ profiles

\* a file of a pdf or zip media type and of at most 10 MiB
Admissible(file) ==
  /\ file.type \in {"application/pdf", "application/zip", "application/x-zip-compressed"}
  /\ file.size <= 10 * 1024 * 1024

\* C15: every file the Apply page holds, and every file a submission hands
\* to the document store, has a pdf or zip media type and at most 10 MiB; a
\* refused file never gets into the page's files.
C15_OnlyAdmissibleFilesUploaded ==
  \A c \in Clients : \A ty \in FileTypes :
    /\ files[c][ty] # NoFile => Admissible(files[c][ty])
    /\ sub[c].pc # "idle" => Admissible(sub[c].files[ty])

\* the insert of a submission whose passport is a file of exactly 10 MiB and
\* whose transcripts are a zip archive
C15_Witness ==
  /\ sub["t1"].pc = "submitting"
  /\ sub["t1"].files["passport"].size = 10 * 1024 * 1024
  /\ sub["t1"].files["transcripts"].type = "application/zip"

\* a contains part, letters compared without regard to case
ContainsIgnoringCase(s, part) ==
  \E k \in 0..(Len(s) - Len(part)) :
    \A j \in 1..Len(part) : LowerChar(s[k + j]) = LowerChar(part[j])

\* the applications the filter is to keep
Wanted(app, term, f) ==
  /\ \/ ContainsIgnoringCase(Text(FullName(app.student_id)), term)
     \/ ContainsIgnoringCase(Text(app.desired_country), term)
     \/ ContainsIgnoringCase(Text(app.desired_college), term)
  /\ f = "all" \/ app.status = f

\* q is the subsequence of list made of the elements of set
SubsequenceOf(q, list, set) ==
  /\ Range(q) = set
  /\ Len(q) = Cardinality(set)
  /\ \A i, j \in 1..Len(q) :
       i < j => \E m, n \in 1..Len(list) : m < n /\ list[m] = q[i] /\ list[n] = q[j]

\* C16: filteredApplications is exactly the applications of the loaded list
\* whose student name, country or institution contains the search term
\* without regard to case and whose status passes the status filter, in the
\* order of the list; with an empty term, exactly those of the chosen status.
C16_FilterExact ==
  \A c \in Clients :
    /\ SubsequenceOf(FilteredApplications(c), adminApplications[c],
                     {app \in Range(adminApplications[c]) :
                        Wanted(app, searchTerm[c], filterStatus[c])})
    /\ (searchTerm[c] = <<>> /\ filterStatus[c] # "all")
         => Range(FilteredApplications(c))
              = {app \in Range(adminApplications[c]) : app.status = filterStatus[c]}

\* a term typed in capitals that matches the country of one of two Accepted
\* applications
C16_Witness ==
  /\ searchTerm["t2"] = <<"C", "A", "N">>
  /\ filterStatus["t2"] = "Accepted"
  /\ Len(adminApplications["t2"]) = 2
  /\ \A app \in Range(adminApplications["t2"]) : app.status = "Accepted"
  /\ Len(FilteredApplications("t2")) = 1

\* what the AdminDashboard shows, the state of its buttons left out
AdminView(c) == <<adminApplications[c], adminLoading[c], selectedApp[c],
                  searchTerm[c], filterStatus[c]>>

\* C17: a store error reaches the caller as an outcome of its own.  A first
\* loadData that ends with no listing received does not leave the Dashboard
\* showing an empty list; a first loadApplications leaves the AdminDashboard
\* showing an empty list only if the table is empty; a handleStatusUpdate
\* whose update failed leaves a trace in what the page shows.
C17_StoreErrorsSurfaced ==
  [][\A c \in Clients :
       /\ (/\ page[c] = "dashboard" /\ page'[c] = "dashboard"
           /\ dashLoading[c] /\ ~dashLoading'[c]
           /\ dashFor'[c] = NULL)
            => dashApplications'[c] # <<>>
       /\ (/\ page[c] = "admin" /\ page'[c] = "admin"
           /\ adminLoading[c] /\ ~adminLoading'[c]
           /\ applications # <<>>)
            => adminApplications'[c] # <<>>
       /\ (/\ page[c] = "admin" /\ page'[c] = "admin"
           /\ upd[c].pc = "update" /\ upd'[c].pc = "idle" /\ upd[c].mounted)
            => AdminView(c)' # AdminView(c)]_vars

\* C18: every update the store answers without error is applied, whatever
\* another administrator has written to the row since the list was loaded:
\* the row then holds the status of that update, so that the status is the
\* one of the update applied last; and a list brought by the reload holds
\* the rows of the store as they are at that reload.
C18_LastWriteWins ==
  [][\A c \in Clients :
       /\ (upd[c].pc = "update" /\ upd'[c].pc = "reload")
            => /\ Len(applications') = Len(applications)
               /\ \A i \in 1..Len(applications) :
                    IF applications[i].id = upd[c].appId
                    THEN /\ applications'[i].status = upd[c].status
                         /\ applications'[i].updated_at > applications[i].updated_at
                    ELSE applications'[i] = applications[i]
       /\ (/\ upd[c].pc = "reload" /\ upd'[c].pc = "idle"
           /\ page[c] = "admin" /\ page'[c] = "admin"
           /\ adminApplications'[c] # adminApplications[c])
            => /\ Range(adminApplications'[c]) = Range(applications)
               /\ Len(adminApplications'[c]) = Len(applications)]_vars

\* a2 (in t1) accepted and a1 (in t2) rejected the same application, each
\* from the row as it was inserted; a1's update was applied last, and a2's
\* reload, after it, shows the application as rejected
C18_Witness ==
  /\ upd["t1"].pc = "idle" /\ upd["t2"].pc = "idle"
  /\ user["t1"] = "a2" /\ user["t2"] = "a1"
  /\ \E r \in Range(applications) :
       /\ r.status = "Rejected" /\ r.updated_at = r.created_at + 2
       /\ r \in Range(adminApplications["t1"])
       /\ selectedApp["t1"] = <<[r EXCEPT !.status = "Accepted",
                                         !.updated_at = r.created_at]>>
       /\ selectedApp["t2"] = <<[r EXCEPT !.updated_at = r.created_at]>>

\* C19: the step in which a submission fails (an upload or the insert), in
\* which a status update fails, or in which a listing returns, leaves the
\* signed-in principal as it was; after it the Apply page has loading false
\* and uploading null and no submission in flight, the AdminDashboard has
\* updatingStatus false and no update in flight, and the listing page is
\* out of its loading state.
C19_RetryAfterFailure ==
  [][\A c \in Clients :
       /\ (/\ sub[c].pc # "idle" /\ sub'[c].pc = "idle"
           /\ page[c] = "apply" /\ page'[c] = "apply")
            => /\ user'[c] = user[c] /\ session'[c] = session[c]
               /\ ~applyLoading'[c]
               /\ uploading'[c] = NULL
       /\ (/\ upd[c].pc = "update" /\ upd'[c].pc = "idle"
           /\ page[c] = "admin" /\ page'[c] = "admin")
            => /\ user'[c] = user[c] /\ session'[c] = session[c]
               /\ isAdmin'[c] = isAdmin[c]
               /\ ~updatingStatus'[c]
       /\ (/\ BagSize(adminLoads'[c]) < BagSize(adminLoads[c])
           /\ page[c] = "admin" /\ page'[c] = "admin")
            => /\ user'[c] = user[c] /\ session'[c] = session[c]
               /\ isAdmin'[c] = isAdmin[c]
               /\ ~adminLoading'[c]
       /\ (/\ BagSize(dashLoads'[c]) < BagSize(dashLoads[c])
           /\ page[c] = "dashboard" /\ page'[c] = "dashboard")
            => /\ user'[c] = user[c] /\ session'[c] = session[c]
               /\ ~dashLoading'[c]]_vars

\* after a failed insert s1 is still signed in on the Apply page, its form
\* filled in, and the submit button enabled
C19_Witness ==
  /\ page["t1"] = "apply" /\ user["t1"] = "s1"
  /\ error["t1"] = <<"insert failed">>
  /\ sub["t1"].pc = "idle"
  /\ ~applyLoading["t1"] /\ uploading["t1"] = NULL
  /\ \A f \in FormFields : formData["t1"][f] # ""
  /\ \A f \in FileTypes : files["t1"][f] # NoFile

\* the place of a stage in the order of C20; 0: no submission in flight
StageRank(pc) ==
  CASE pc = "passport" -> 1
    [] pc = "transcripts" -> 2
    [] pc = "motivationLetter" -> 3
    [] pc = "submitting" -> 4
    [] OTHER -> 0

\* the documents of submission id that the store holds
StoredPaths(bs, id) == {b.name.path : b \in {x \in bs : x.sub = id}}

\* C20: a submission starts at the passport upload under an identifier no
\* submission had before; it moves from a stage only to the stage after it
\* in the order passport, transcripts, motivation letter, insertion, and
\* only in a step in which the stage it leaves succeeded (its document is
\* stored and its locator recorded); it never returns to a stage; a row is
\* inserted only by a submission at the insertion stage whose three
\* documents are stored; and once a submission has ended, no stage of it
\* runs again.
C20_StagesInOrder ==
  [][/\ \A c \in Clients :
         /\ (sub[c].pc = "idle" /\ sub'[c].pc # "idle")
              => /\ StageRank(sub'[c].pc) = 1
                 /\ sub'[c].id > submissions
                 /\ sub'[c].id = submissions'
                 /\ sub'[c].urls = <<>>
         /\ (sub[c].pc # "idle" /\ sub'[c].pc # "idle")
              => /\ sub'[c].id = sub[c].id
                 /\ \/ /\ sub'[c].pc = sub[c].pc
                       /\ sub'[c].urls = sub[c].urls
                       /\ blobs' = blobs
                    \/ /\ StageRank(sub'[c].pc) = StageRank(sub[c].pc) + 1
                       /\ Len(sub'[c].urls) = StageRank(sub[c].pc)
                       /\ SubSeq(sub'[c].urls, 1, Len(sub[c].urls)) = sub[c].urls
                       /\ sub'[c].urls[Len(sub'[c].urls)][2] \in {b.name : b \in blobs'} \ {b.name : b \in blobs}
                       /\ StoredPaths(blobs', sub[c].id) =
                            StoredPaths(blobs, sub[c].id) \cup {UploadPath(sub[c].pc)}
         /\ (sub[c].pc # "idle" /\ sub'[c].pc = "idle" /\ blobs' # blobs)
              => sub[c].pc \in {"passport", "transcripts", "motivationLetter"}
     /\ applications' # applications
          => \E c \in Clients :
               /\ sub[c].pc = "submitting" /\ sub'[c].pc = "idle"
               /\ StoredPaths(blobs, sub[c].id) = {"passport", "transcripts", "motivation_letter"}
               /\ Len(applications') = Len(applications) + 1
               /\ applications'[Len(applications')].sub = sub[c].id
     /\ submissions' >= submissions
     /\ \A b \in blobs' \ blobs : \E c \in Clients :
          /\ b.sub = sub[c].id
          /\ b.name.path = UploadPath(sub[c].pc)
          /\ b.name.path \notin StoredPaths(blobs, sub[c].id)]_vars

\* after a first submission that failed at its transcripts upload, with only
\* its passport stored, a second one has reached the insertion
C20_Witness ==
  /\ sub["t1"].pc = "submitting"
  /\ sub["t1"].id = 2
  /\ Len(sub["t1"].urls) = 3
  /\ StoredPaths(blobs, 1) = {"passport"}
  /\ StoredPaths(blobs, 2) = {"passport", "transcripts", "motivation_letter"}
  /\ applications = <<>>

\* the submit button of Apply is enabled and a click on it starts a pipeline
SubmitEnabled(c) ==
  /\ page[c] = "apply" /\ ~applyLoading[c]
  /\ \A f \in FormFields : formData[c][f] # ""
  /\ \A f \in FileTypes : files[c][f] # NoFile

\* the status buttons of the AdminDashboard are shown and enabled
StatusButtonsEnabled(c) ==
  /\ page[c] = "admin" /\ ~adminLoading[c]
  /\ selectedApp[c] # <<>>
  /\ ~updatingStatus[c]

\* C21: in a browser, while a status update is outstanding no status
\* button can start another one, and while a submission pipeline is
\* outstanding the submit button cannot start another one.
C21_OneOperationInFlight ==
  \A c \in Clients :
    /\ upd[c].pc # "idle" => ~StatusButtonsEnabled(c)
    /\ sub[c].pc # "idle" => ~SubmitEnabled(c)

\* the names of the documents that the rows of a table refer to
Referenced(table) ==
  UNION {{r.passport_url[2], r.transcripts_url[2], r.motivation_letter_url[2]} :
           r \in Range(table)}

\* C22: no step removes a document from the bucket, so that the documents
\* of a submission that failed stay there; no application refers to a
\* document of a submission that did not insert it; and every upload of a
\* later submission stores a document under a name the bucket did not hold.
C22_OrphansKept ==
  [][/\ blobs \subseteq blobs'
     /\ \A c \in Clients :
          (sub[c].pc # "idle" /\ sub'[c].pc = "idle" /\ applications' = applications)
            => /\ {b \in blobs' : b.sub = sub[c].id} = {b \in blobs : b.sub = sub[c].id}
               /\ \A b \in blobs' : b.sub = sub[c].id => b.name \notin Referenced(applications')
     /\ \A r \in Range(applications') : \A b \in blobs' :
          b.name \in {r.passport_url[2], r.transcripts_url[2], r.motivation_letter_url[2]}
            => b.sub = r.sub
     /\ \A c \in Clients :
          Len(sub'[c].urls) > Len(sub[c].urls)
            => /\ sub'[c].urls[Len(sub'[c].urls)][2] \notin {b.name : b \in blobs}
               /\ [name |-> sub'[c].urls[Len(sub'[c].urls)][2], sub |-> sub[c].id] \in blobs']_vars

\* the first submission failed at its insert and left three documents; the
\* second one uploaded three others and its application refers to those
C22_Witness ==
  /\ Len(applications) = 1
  /\ applications[1].sub = 2
  /\ Cardinality({b \in blobs : b.sub = 1}) = 3
  /\ Cardinality({b \in blobs : b.sub = 2}) = 3
  /\ Referenced(applications) = {b.name : b \in {x \in blobs : x.sub = 2}}
  /\ Cardinality({b.name : b \in blobs}) = 6

\* C23: when getSession has resolved, no admins lookup is outstanding and
\* the lookup that returned last did not fail, isAdmin tells whether the
\* signed-in user is an administrator.
C23_LookupsSettleOnCurrentUser ==
  \A c \in Clients :
    (/\ page[c] # "external"
     /\ ~getSessionPending[c]
     /\ BagSize(lookups[c]) = 0
     /\ user[c] # NULL
     /\ lastCheck[c].outcome \in {"row", "empty"})
      => (isAdmin[c] <=> user[c] \in Admins)

\* C24: no step gives the status Pending to an application that the table
\* already holds with another status: a row has the status Pending after a
\* step only if the step inserted it or it had that status before.
C24_NoReturnToPending ==
  [][/\ Len(applications') >= Len(applications)
     /\ \A i \in 1..Len(applications) :
          /\ applications'[i].id = applications[i].id
          /\ applications[i].status # "Pending" => applications'[i].status # "Pending"]_vars

\* an application updated twice, the second time from Accepted or Rejected
\* back to Reviewed
C24_Witness ==
  \E r \in Range(applications) :
    /\ r.status = "Reviewed"
    /\ r.updated_at = r.created_at + 2
    /\ \E c \in Clients : \E q \in Range(adminApplications[c]) :
         q.id = r.id /\ q.status \in {"Accepted", "Rejected"} /\ q.updated_at = r.created_at + 1

\* C25: with getSession and every admins lookup answered at some time,
\* the loading flag of the AuthProvider becomes false, and no step sets it
\* from false to true.
C25_LoadingSettles ==
  /\ <>(~loading["t1"])
  /\ [][\A c \in Clients : ~loading[c] => ~loading'[c]]_vars

\* loading is false and stays so while the lookups of later sign-ins are
\* outstanding
C25_Witness ==
  /\ ~loading["t1"]
  /\ ~getSessionPending["t1"]
  /\ lastCheck["t1"].outcome # "none"
  /\ user["t1"] = "a1"
  /\ BagSize(lookups["t1"]) = MaxLookups

\* the messages with which handleFileChange refuses a file
Refusals ==
  {<<m, ty>> : m \in {"Please upload a PDF or ZIP file for",
                      "File size must be less than 10MB for"},
              ty \in FileTypes}

\* C26: a step that puts a refusal of handleFileChange into the error
\* message changes nothing else of the Apply page, of the submission in
\* flight and of the store; the files change only by one category getting
\* an admissible file; and a submission takes the files the page holds at
\* the click, and uploads for each stage the file taken for it.
C26_RefusalKeepsFiles ==
  [][\A c \in Clients :
       /\ (error'[c] # error[c] /\ error'[c] \in Refusals)
            => /\ files'[c] = files[c]
               /\ formData'[c] = formData[c]
               /\ applyLoading'[c] = applyLoading[c]
               /\ uploading'[c] = uploading[c]
               /\ sub'[c] = sub[c]
               /\ blobs' = blobs /\ applications' = applications
       /\ (files'[c] # files[c] /\ page'[c] = "apply" /\ page[c] = "apply")
            => \E ty \in FileTypes :
                 /\ Admissible(files'[c][ty])
                 /\ \A other \in FileTypes \ {ty} : files'[c][other] = files[c][other]
       /\ (sub[c].pc = "idle" /\ sub'[c].pc # "idle")
            => sub'[c].files = files[c]
       /\ \A b \in blobs' \ blobs :
            b.sub = sub[c].id
              => \E ty \in FileTypes :
                   /\ sub[c].pc = ty
                   /\ b.name.ext = sub[c].files[ty].name]_vars

\* a pdf of more than 10 MiB was refused as passport after a zip archive
\* had been accepted for it: the page shows the refusal and holds the
\* archive, and the form is complete
C26_Witness ==
  /\ page["t1"] = "apply"
  /\ error["t1"] = <<"File size must be less than 10MB for", "passport">>
  /\ files["t1"]["passport"] = ZipFile
  /\ \A ty \in FileTypes : files["t1"][ty] # NoFile
  /\ \A f \in FormFields : formData["t1"][f] # ""

====
